---- MODULE Spec2Model ----
(***************************************************************************)
(* Bundle valuation engine of fairV (src/types/bundle.types.ts).           *)
(*                                                                         *)
(* Prices, multipliers and totals are ECMAScript numbers, i.e. binary      *)
(* floating point with round-to-nearest, ties-to-even.  A number is        *)
(* modelled as [m |-> odd integer significand, e |-> exponent] (value      *)
(* m * 2^e, zero is [m |-> 0, e |-> 0]); every arithmetic result is        *)
(* rounded to Precision significant bits, as the hardware rounds to 53.    *)
(***************************************************************************)
EXTENDS Integers, Sequences, FiniteSets, TLC

\* cards  : the card collection the caller holds (TCGCard[])
\* bundle : the bundle the caller holds (CardBundle)
\* call   : the last call of an engine function: its arguments and outcome
VARIABLES cards, bundle, call

vars == <<cards, bundle, call>>

(***************************************************************************)
(* Bounds                                                                  *)
(***************************************************************************)
\* significand width of the modelled number format (binary64 has 53)
Precision == 9
\* largest length of bundle.cardIDs handed to the bundle functions
MaxCardIDs == 3
\* largest length of the card sequence handed to calculateBundleTotal
MaxCards == 3
\* largest length of bundle.cardIDs a caller editing its bundle builds
MaxHeld == 2

\* longest cardIDs of the bundle the callers share
MaxSharedIDs == 2

(***************************************************************************)
(* ECMAScript number arithmetic                                            *)
(***************************************************************************)
RECURSIVE Pow2(_)
Pow2(n) == IF n <= 0 THEN 1 ELSE 2 * Pow2(n - 1)

RECURSIVE BitLen(_)
BitLen(n) == IF n = 0 THEN 0 ELSE 1 + BitLen(n \div 2)

Abs(n) == IF n < 0 THEN -n ELSE n

Sgn(n) == IF n < 0 THEN -1 ELSE 1

RECURSIVE Normalize(_, _)
Normalize(m, e) ==
    IF m = 0 THEN [m |-> 0, e |-> 0]
    ELSE IF m % 2 = 0 THEN Normalize(Sgn(m) * (Abs(m) \div 2), e + 1)
    ELSE [m |-> m, e |-> e]

\* the number nearest to M * 2^e, ties to even
RoundSig(M, e) ==
    LET a == Abs(M)
        k == BitLen(a) - Precision
    IN  IF k <= 0 THEN Normalize(M, e)
        ELSE LET q    == a \div Pow2(k)
                 r    == a % Pow2(k)
                 half == Pow2(k - 1)
                 up   == r > half \/ (r = half /\ q % 2 = 1)
                 qq   == IF up THEN q + 1 ELSE q
             IN  Normalize(Sgn(M) * qq, e + k)

\* the number nearest to (n / d) * 2^e for n >= 0, d > 0, ties to even
RECURSIVE RoundQ(_, _, _)
RoundQ(n, d, e) ==
    IF n = 0 THEN [m |-> 0, e |-> 0]
    ELSE IF n \div d < Pow2(Precision - 1) THEN RoundQ(2 * n, d, e - 1)
    ELSE IF n \div d >= Pow2(Precision) THEN RoundQ(n, 2 * d, e + 1)
    ELSE LET q  == n \div d
             r  == n % d
             up == 2 * r > d \/ (2 * r = d /\ q % 2 = 1)
         IN  Normalize(IF up THEN q + 1 ELSE q, e)

\* a numeric literal num/den of the source text (0.1 is Lit(1, 10))
Lit(num, den) ==
    LET r == RoundQ(Abs(num), den, 0)
    IN  [m |-> Sgn(num) * r.m, e |-> r.e]

Zero == [m |-> 0, e |-> 0]

\* a + b
FAdd(a, b) ==
    LET e == IF a.e < b.e THEN a.e ELSE b.e
    IN  RoundSig(a.m * Pow2(a.e - e) + b.m * Pow2(b.e - e), e)

\* a * b
FMul(a, b) == RoundSig(a.m * b.m, a.e + b.e)

\* a / b, b # 0
FDiv(a, b) ==
    LET r == RoundQ(Abs(a.m), Abs(b.m), a.e - b.e)
    IN  [m |-> Sgn(a.m) * Sgn(b.m) * r.m, e |-> r.e]

\* a < b
FLess(a, b) ==
    LET e == IF a.e < b.e THEN a.e ELSE b.e
    IN  a.m * Pow2(a.e - e) < b.m * Pow2(b.e - e)

(***************************************************************************)
(* Values                                                                  *)
(***************************************************************************)
\* the value of an optional property that is not set
Undefined == [undef |-> TRUE]

Strategies == {"trending", "average", "low"}

Tiers == {"trendingPrice", "averagePrice", "lowPrice"}

TCGCard(id, trending, average, low) ==
    [id |-> id, trendingPrice |-> trending, averagePrice |-> average,
     lowPrice |-> low]

\* outcome of a call: a returned value or a thrown Error
Return(v) == [kind |-> "return", value |-> v]

Throw(msg) == [kind |-> "throw", message |-> msg]

\* x ?? d
Coalesce(x, d) == IF x = Undefined THEN d ELSE x

(***************************************************************************)
(* bundle.types.ts                                                         *)
(***************************************************************************)
\* variant: a card without a low price is valued at its average price
getPriceForStrategy_Fallback(card, strategy) ==
    CASE strategy = "trending" -> card.trendingPrice
      [] strategy = "average"  -> card.averagePrice
      [] strategy = "low"      -> Coalesce(card.lowPrice, card.averagePrice)
      [] OTHER                 -> Undefined

getPriceForStrategy(card, strategy) ==
    CASE strategy = "trending" -> card.trendingPrice
      [] strategy = "average"  -> card.averagePrice
      [] strategy = "low"      -> card.lowPrice
      [] OTHER                 -> Undefined

\* cards.reduce((sum, card) => sum + (price ?? 0), sum)
RECURSIVE Subtotal(_, _, _)
Subtotal(cs, strategy, sum) ==
    IF cs = <<>> THEN sum
    ELSE Subtotal(Tail(cs), strategy,
                  FAdd(sum, Coalesce(getPriceForStrategy(Head(cs), strategy), Zero)))

\* the literals 0.1 and 1.0 of the range checks
MinMultiplier == Lit(1, 10)

MaxMultiplier == Lit(1, 1)

\* variant: the multiplier is not applied to the subtotal
calculateBundleTotal_NoMultiplier(cs, strategy, multiplier) ==
    IF FLess(multiplier, MinMultiplier) \/ FLess(MaxMultiplier, multiplier)
    THEN Throw("Multiplier must be between 0.1 and 1.0 (10% to 100%)")
    ELSE Return(Subtotal(cs, strategy, Zero))

\* variant: an out-of-range multiplier is clamped into [0.1, 1.0]
calculateBundleTotal_Clamped(cs, strategy, multiplier) ==
    LET clamped == IF FLess(multiplier, MinMultiplier) THEN MinMultiplier
                   ELSE IF FLess(MaxMultiplier, multiplier) THEN MaxMultiplier
                   ELSE multiplier
    IN  Return(FMul(Subtotal(cs, strategy, Zero), clamped))

\* variant: a card without a price in the selected tier aborts the total
calculateBundleTotal_Strict(cs, strategy, multiplier) ==
    IF FLess(multiplier, MinMultiplier) \/ FLess(MaxMultiplier, multiplier)
    THEN Throw("Multiplier must be between 0.1 and 1.0 (10% to 100%)")
    ELSE IF \E i \in DOMAIN cs : getPriceForStrategy(cs[i], strategy) = Undefined
    THEN Throw("Missing price")
    ELSE Return(FMul(Subtotal(cs, strategy, Zero), multiplier))

calculateBundleTotal(cs, strategy, multiplier) ==
    IF FLess(multiplier, MinMultiplier) \/ FLess(MaxMultiplier, multiplier)
    THEN Throw("Multiplier must be between 0.1 and 1.0 (10% to 100%)")
    ELSE Return(FMul(Subtotal(cs, strategy, Zero), multiplier))

\* bundle.cardIDs.includes(id)
Includes(cardIDs, id) == \E i \in DOMAIN cardIDs : cardIDs[i] = id

\* variant: no filter, every card of the collection is taken
BundleCards_All(b, cs) == cs

\* variant: only the first id of cardIDs is looked up
BundleCards_FirstId(b, cs) ==
    SelectSeq(cs, LAMBDA card : b.cardIDs # <<>> /\ b.cardIDs[1] = card.id)

\* cards.filter(card => bundle.cardIDs.includes(card.id))
BundleCards(b, cs) == SelectSeq(cs, LAMBDA card : Includes(b.cardIDs, card.id))

\* variant: if (card.trendingPrice) instead of !== undefined
StatsStep_Truthy(acc, card) ==
    LET a1 == IF card.trendingPrice # Undefined /\ card.trendingPrice # Zero
              THEN [acc EXCEPT !.trendingTotal = FAdd(@, card.trendingPrice),
                               !.validCards = @ + 1]
              ELSE acc
        a2 == IF card.averagePrice # Undefined
              THEN [a1 EXCEPT !.averageTotal = FAdd(@, card.averagePrice)]
              ELSE a1
    IN  IF card.lowPrice # Undefined
        THEN [a2 EXCEPT !.lowTotal = FAdd(@, card.lowPrice)]
        ELSE a2

\* variant: validCards is incremented for every price that is present
StatsStep_CountsEveryTier(acc, card) ==
    LET a1 == IF card.trendingPrice # Undefined
              THEN [acc EXCEPT !.trendingTotal = FAdd(@, card.trendingPrice),
                               !.validCards = @ + 1]
              ELSE acc
        a2 == IF card.averagePrice # Undefined
              THEN [a1 EXCEPT !.averageTotal = FAdd(@, card.averagePrice),
                              !.validCards = @ + 1]
              ELSE a1
    IN  IF card.lowPrice # Undefined
        THEN [a2 EXCEPT !.lowTotal = FAdd(@, card.lowPrice),
                        !.validCards = @ + 1]
        ELSE a2

\* one iteration of the for loop of calculateBundleStatistics
StatsStep(acc, card) ==
    LET a1 == IF card.trendingPrice # Undefined
              THEN [acc EXCEPT !.trendingTotal = FAdd(@, card.trendingPrice),
                               !.validCards = @ + 1]
              ELSE acc
        a2 == IF card.averagePrice # Undefined
              THEN [a1 EXCEPT !.averageTotal = FAdd(@, card.averagePrice)]
              ELSE a1
    IN  IF card.lowPrice # Undefined
        THEN [a2 EXCEPT !.lowTotal = FAdd(@, card.lowPrice)]
        ELSE a2

RECURSIVE StatsLoop(_, _)
StatsLoop(bundleCards, acc) ==
    IF bundleCards = <<>> THEN acc
    ELSE StatsLoop(Tail(bundleCards), StatsStep(acc, Head(bundleCards)))

\* variant: selectedTotal is recomputed instead of read from the bundle
calculateBundleStatistics_Recompute(b, cs) ==
    LET acc == StatsLoop(BundleCards(b, cs),
                         [trendingTotal |-> Zero, averageTotal |-> Zero,
                          lowTotal |-> Zero, validCards |-> 0])
        now == calculateBundleTotal(BundleCards(b, cs), b.pricingStrategy,
                                    b.percentageMultiplier)
    IN  Return([trendingTotal  |-> acc.trendingTotal,
                averageTotal   |-> acc.averageTotal,
                lowTotal       |-> acc.lowTotal,
                selectedTotal  |-> IF now.kind = "return" THEN now.value
                                   ELSE b.calculatedTotal,
                cardCount      |-> Len(b.cardIDs),
                validCardCount |-> acc.validCards])

\* variant: the three totals are scaled by bundle.percentageMultiplier
calculateBundleStatistics_Scaled(b, cs) ==
    LET acc == StatsLoop(BundleCards(b, cs),
                         [trendingTotal |-> Zero, averageTotal |-> Zero,
                          lowTotal |-> Zero, validCards |-> 0])
    IN  Return([trendingTotal  |-> FMul(acc.trendingTotal, b.percentageMultiplier),
                averageTotal   |-> FMul(acc.averageTotal, b.percentageMultiplier),
                lowTotal       |-> FMul(acc.lowTotal, b.percentageMultiplier),
                selectedTotal  |-> b.calculatedTotal,
                cardCount      |-> Len(b.cardIDs),
                validCardCount |-> acc.validCards])

\* variant: cardCount is the number of cards that were found
calculateBundleStatistics_CountsFound(b, cs) ==
    LET acc == StatsLoop(BundleCards(b, cs),
                         [trendingTotal |-> Zero, averageTotal |-> Zero,
                          lowTotal |-> Zero, validCards |-> 0])
    IN  Return([trendingTotal  |-> acc.trendingTotal,
                averageTotal   |-> acc.averageTotal,
                lowTotal       |-> acc.lowTotal,
                selectedTotal  |-> b.calculatedTotal,
                cardCount      |-> Len(BundleCards(b, cs)),
                validCardCount |-> acc.validCards])

calculateBundleStatistics(b, cs) ==
    LET acc == StatsLoop(BundleCards(b, cs),
                         [trendingTotal |-> Zero, averageTotal |-> Zero,
                          lowTotal |-> Zero, validCards |-> 0])
    IN  Return([trendingTotal  |-> acc.trendingTotal,
                averageTotal   |-> acc.averageTotal,
                lowTotal       |-> acc.lowTotal,
                selectedTotal  |-> b.calculatedTotal,
                cardCount      |-> Len(b.cardIDs),
                validCardCount |-> acc.validCards])

\* variant: cardIDs is rewritten to the ids of the cards that were found
updateBundleTotal_RewritesIds(b, cs, date) ==
    LET found    == BundleCards(b, cs)
        newTotal == calculateBundleTotal(found, b.pricingStrategy,
                                         b.percentageMultiplier)
    IN  IF newTotal.kind = "throw" THEN newTotal
        ELSE Return([b EXCEPT !.calculatedTotal = newTotal.value,
                              !.lastModified = date,
                              !.cardIDs = [i \in DOMAIN found |-> found[i].id]])

\* variant: the Error of calculateBundleTotal is caught and the total
\* defaults to 0
updateBundleTotal_Defaulting(b, cs, date) ==
    LET newTotal == calculateBundleTotal(BundleCards(b, cs), b.pricingStrategy,
                                         b.percentageMultiplier)
    IN  Return([b EXCEPT !.calculatedTotal =
                            IF newTotal.kind = "throw" THEN Zero ELSE newTotal.value,
                         !.lastModified = date])

\* variant: the total is taken over every supplied card
updateBundleTotal_Unfiltered(b, cs, date) ==
    LET newTotal == calculateBundleTotal(cs, b.pricingStrategy,
                                         b.percentageMultiplier)
    IN  IF newTotal.kind = "throw" THEN newTotal
        ELSE Return([b EXCEPT !.calculatedTotal = newTotal.value,
                              !.lastModified = date])

\* date is the value of new Date()
updateBundleTotal(b, cs, date) ==
    LET newTotal == calculateBundleTotal(BundleCards(b, cs), b.pricingStrategy,
                                         b.percentageMultiplier)
    IN  IF newTotal.kind = "throw" THEN newTotal
        ELSE Return([b EXCEPT !.calculatedTotal = newTotal.value,
                              !.lastModified = date])

(***************************************************************************)
(* Strings: a string is the sequence of its characters                     *)
(***************************************************************************)
\* characters String.prototype.trim removes
WhiteSpace == {" ", "\t", "\n"}

RECURSIVE TrimStart(_)
TrimStart(str) ==
    IF str # <<>> /\ Head(str) \in WhiteSpace THEN TrimStart(Tail(str)) ELSE str

RECURSIVE TrimEnd(_)
TrimEnd(str) ==
    IF str # <<>> /\ str[Len(str)] \in WhiteSpace
    THEN TrimEnd(SubSeq(str, 1, Len(str) - 1))
    ELSE str

\* str.trim()
Trim(str) == TrimEnd(TrimStart(str))

(***************************************************************************)
(* bundle.types.ts: validateBundle                                         *)
(***************************************************************************)
\* variant: else-if chain, only the first violation is reported
validateBundle_ShortCircuit(b) ==
    LET errors ==
            IF Trim(b.name) = <<>> THEN <<"Bundle name is required">>
            ELSE IF Len(b.cardIDs) = 0
            THEN <<"Bundle must contain at least one card">>
            ELSE IF FLess(b.percentageMultiplier, MinMultiplier)
                    \/ FLess(MaxMultiplier, b.percentageMultiplier)
            THEN <<"Percentage must be between 10% and 100%">>
            ELSE <<>>
    IN  Return([isValid |-> Len(errors) = 0, errors |-> errors])

\* variant: <= 0.1 and >= 1.0, the ends of the range are rejected
validateBundle_Exclusive(b) ==
    LET errors0 == <<>>
        errors1 == IF Trim(b.name) = <<>>
                   THEN Append(errors0, "Bundle name is required")
                   ELSE errors0
        errors2 == IF Len(b.cardIDs) = 0
                   THEN Append(errors1, "Bundle must contain at least one card")
                   ELSE errors1
        errors3 == IF ~ FLess(MinMultiplier, b.percentageMultiplier)
                      \/ ~ FLess(b.percentageMultiplier, MaxMultiplier)
                   THEN Append(errors2, "Percentage must be between 10% and 100%")
                   ELSE errors2
    IN  Return([isValid |-> Len(errors3) = 0, errors |-> errors3])

\* variant: the multiplier is checked as a percentage, against 10 and 100
validateBundle_PercentScale(b) ==
    LET errors0 == <<>>
        errors1 == IF Trim(b.name) = <<>>
                   THEN Append(errors0, "Bundle name is required") ELSE errors0
        errors2 == IF Len(b.cardIDs) = 0
                   THEN Append(errors1, "Bundle must contain at least one card")
                   ELSE errors1
        errors3 == IF FLess(b.percentageMultiplier, Lit(10, 1))
                      \/ FLess(Lit(100, 1), b.percentageMultiplier)
                   THEN Append(errors2, "Percentage must be between 10% and 100%")
                   ELSE errors2
    IN  Return([isValid |-> Len(errors3) = 0, errors |-> errors3])

validateBundle(b) ==
    LET errors0 == <<>>
        errors1 == IF Trim(b.name) = <<>>
                   THEN Append(errors0, "Bundle name is required")
                   ELSE errors0
        errors2 == IF Len(b.cardIDs) = 0
                   THEN Append(errors1, "Bundle must contain at least one card")
                   ELSE errors1
        errors3 == IF FLess(b.percentageMultiplier, MinMultiplier)
                      \/ FLess(MaxMultiplier, b.percentageMultiplier)
                   THEN Append(errors2, "Percentage must be between 10% and 100%")
                   ELSE errors2
    IN  Return([isValid |-> Len(errors3) = 0, errors |-> errors3])

\* variant: the name is normalised in place, bundle.name = bundle.name.trim()
validateBundleArgs_TrimsName(b) == [bundle |-> [b EXCEPT !.name = Trim(@)]]

\* the argument as validateBundle leaves it: the body reads name, cardIDs
\* and percentageMultiplier and assigns to no property of bundle
validateBundleArgs(b) == [bundle |-> b]

(***************************************************************************)
(* tcg.types.ts: generatePriceTable, getCardIdentifier                     *)
(* An optional string property that is not set is absent from the record.  *)
(***************************************************************************)
Percentages ==
    << Lit(100, 1), Lit(90, 1), Lit(80, 1), Lit(70, 1), Lit(60, 1),
       Lit(50, 1), Lit(40, 1), Lit(30, 1), Lit(20, 1), Lit(10, 1) >>

\* the literal 100 of percentage / 100
Hundred == Lit(100, 1)

\* percentages.map(percentage => ...), one row
PriceTableRow(card, percentage) ==
    LET multiplier == FDiv(percentage, Hundred)
    IN  [percentage    |-> percentage,
         trendingValue |-> FMul(Coalesce(card.trendingPrice, Zero), multiplier),
         averageValue  |-> FMul(Coalesce(card.averagePrice, Zero), multiplier),
         lowValue      |-> FMul(Coalesce(card.lowPrice, Zero), multiplier)]

\* variant: a card without any price gets no rows
generatePriceTable_SkipsUnpriced(card) ==
    IF \A tier \in Tiers : card[tier] = Undefined THEN Return(<<>>)
    ELSE Return([i \in DOMAIN Percentages |-> PriceTableRow(card, Percentages[i])])

\* variant: averageValue falls back to the trending price
generatePriceTable_Fallback(card) ==
    Return([i \in DOMAIN Percentages |->
              [PriceTableRow(card, Percentages[i]) EXCEPT
                  !.averageValue =
                      FMul(Coalesce(card.averagePrice,
                                    Coalesce(card.trendingPrice, Zero)),
                           FDiv(Percentages[i], Hundred))]])

\* variant: the prices are multiplied by the percentage, not by percentage / 100
generatePriceTable_Unscaled(card) ==
    Return([i \in DOMAIN Percentages |->
              [percentage    |-> Percentages[i],
               trendingValue |-> FMul(Coalesce(card.trendingPrice, Zero), Percentages[i]),
               averageValue  |-> FMul(Coalesce(card.averagePrice, Zero), Percentages[i]),
               lowValue      |-> FMul(Coalesce(card.lowPrice, Zero), Percentages[i])]])

generatePriceTable(card) ==
    Return([i \in DOMAIN Percentages |-> PriceTableRow(card, Percentages[i])])

\* the argument as generatePriceTable leaves it: the body only reads card
generatePriceTableArgs(card) == [card |-> card]

\* card[field]?.trim() ?? ''
TrimOrEmpty(card, field) ==
    IF field \in DOMAIN card THEN Trim(card[field]) ELSE <<>>

\* variant: the id is part of the key
getCardIdentifier_WithId(card) ==
    Return(<<card.id, "|">> \o Trim(card.cardName) \o <<"|">>
           \o TrimOrEmpty(card, "setName") \o <<"|">>
           \o TrimOrEmpty(card, "cardNumber"))

\* variant: the set name is left out of the key
getCardIdentifier_OmitsSet(card) ==
    Return(Trim(card.cardName) \o <<"|">> \o <<"|">>
           \o TrimOrEmpty(card, "cardNumber"))

getCardIdentifier(card) ==
    LET name   == Trim(card.cardName)
        set    == TrimOrEmpty(card, "setName")
        number == TrimOrEmpty(card, "cardNumber")
    IN  Return(name \o <<"|">> \o set \o <<"|">> \o number)

\* the argument as getCardIdentifier leaves it: the body only reads card
getCardIdentifierArgs(card) == [card |-> card]

(***************************************************************************)
(* lib/utils: formatDate, formatRelativeTime.  A Date is its time value,   *)
(* the milliseconds since the epoch; the clock new Date() reads is the     *)
(* parameter now.                                                          *)
(***************************************************************************)
MonthsShort ==
    << "Jan", "Feb", "Mar", "Apr", "May", "Jun",
       "Jul", "Aug", "Sep", "Oct", "Nov", "Dec" >>

\* year, month and day of the day number (days since the epoch), in the
\* proleptic Gregorian calendar Intl.DateTimeFormat uses
CivilFromDays(days) ==
    LET z   == days + 719468
        era == z \div 146097
        doe == z - era * 146097
        yoe == (doe - doe \div 1460 + doe \div 36524 - doe \div 146096) \div 365
        doy == doe - (365 * yoe + yoe \div 4 - yoe \div 100)
        mp  == (5 * doy + 2) \div 153
        m   == IF mp < 10 THEN mp + 3 ELSE mp - 9
    IN  [year  |-> yoe + era * 400 + (IF m <= 2 THEN 1 ELSE 0),
         month |-> m,
         day   |-> doy - (153 * mp + 2) \div 5 + 1]

\* Intl.DateTimeFormat('en-US', { month: 'short', day: 'numeric',
\* year: 'numeric' }).format(date), the host's time zone taken as UTC
formatDate(date, format) ==
    LET civil == CivilFromDays(date \div 86400000)
    IN  MonthsShort[civil.month] \o " " \o ToString(civil.day) \o ", "
        \o ToString(civil.year)

formatRelativeTime(date, now) ==
    LET diffInSeconds == (now - date) \div 1000
    IN  IF diffInSeconds < 60 THEN Return("just now")
        ELSE IF diffInSeconds < 3600
        THEN Return(ToString(diffInSeconds \div 60) \o " minutes ago")
        ELSE IF diffInSeconds < 86400
        THEN Return(ToString(diffInSeconds \div 3600) \o " hours ago")
        ELSE IF diffInSeconds < 604800
        THEN Return(ToString(diffInSeconds \div 86400) \o " days ago")
        ELSE Return(formatDate(date, "short"))

(***************************************************************************)
(* The arguments as a call leaves them.  Objects and arrays are passed by  *)
(* reference, so an assignment to a property of a parameter would show in  *)
(* the caller's value; none of the bodies makes one.                       *)
(***************************************************************************)
\* cards.reduce reads the array
calculateBundleTotalArgs(cs, strategy, multiplier) == [cards |-> cs]

\* cards.filter builds a new array; the counters are locals
calculateBundleStatisticsArgs(b, cs) == [bundle |-> b, cards |-> cs]

\* variant: the total is assigned to the bundle that was passed in
updateBundleTotalArgs_InPlace(b, cs, date) ==
    LET out == updateBundleTotal(b, cs, date)
    IN  [bundle |-> IF out.kind = "return"
                    THEN [b EXCEPT !.calculatedTotal = out.value.calculatedTotal,
                                   !.lastModified = date]
                    ELSE b,
         cards |-> cs]

\* the result is a spread copy { ...bundle, calculatedTotal, lastModified }
updateBundleTotalArgs(b, cs, date) == [bundle |-> b, cards |-> cs]

(***************************************************************************)
(* Inputs                                                                  *)
(***************************************************************************)
NoCall == [op |-> "none"]

\* card values handed to calculateBundleTotal: the spec's scenario (average
\* 100, 150, 200 only), cards with cent prices in every tier, a card
\* without market data and a card with trendingPrice 0
CardPool ==
    { TCGCard("k1", Undefined, Lit(100, 1), Undefined),
      TCGCard("k2", Undefined, Lit(150, 1), Undefined),
      TCGCard("k3", Undefined, Lit(200, 1), Undefined),
      TCGCard("k4", Lit(1, 10), Lit(2, 10), Lit(3, 10)),
      TCGCard("k5", Lit(2, 10), Lit(3, 10), Lit(1, 10)),
      TCGCard("k6", Lit(3, 10), Lit(1, 10), Lit(2, 10)),
      TCGCard("k7", Undefined, Undefined, Undefined),
      TCGCard("k8", Zero, Undefined, Lit(100, 1)) }

CardSeqs == UNION { [1..n -> CardPool] : n \in 0..MaxCards }

Multipliers ==
    { Lit(-1, 1), Lit(5, 100), Lit(1, 10), Lit(8, 10), Lit(1, 1), Lit(15, 10) }

NewBundle(strategy, multiplier) ==
    [id |-> "bundle-1", name |-> "Charizard Collection", cardIDs |-> <<>>,
     pricingStrategy |-> strategy, percentageMultiplier |-> multiplier,
     calculatedTotal |-> Zero, notes |-> "bulk", createdAt |-> 0,
     lastModified |-> 0]

(***************************************************************************)
(* SpecTotal: calculateBundleTotal applied to every card sequence          *)
(***************************************************************************)
InitTotal ==
    /\ cards \in CardSeqs
    /\ bundle = NewBundle("average", Lit(8, 10))
    /\ call = NoCall

CallCalculateBundleTotal ==
    /\ \E strategy \in Strategies, multiplier \in Multipliers :
          /\ call' = [op |-> "calculateBundleTotal", cards |-> cards,
                      strategy |-> strategy, multiplier |-> multiplier,
                      out |-> calculateBundleTotal(cards, strategy, multiplier)]
          /\ cards' = calculateBundleTotalArgs(cards, strategy, multiplier).cards
    /\ UNCHANGED bundle

NextTotal == CallCalculateBundleTotal

SpecTotal == InitTotal /\ [][NextTotal]_vars

(***************************************************************************)
(* Bundles and card collections                                            *)
(***************************************************************************)
CardIds == {"c1", "c2", "c3"}

\* the spec's scenario (average prices only), and a collection with cent
\* prices, a trendingPrice of 0 and no card for the id c3
InitialStores ==
    { << TCGCard("c1", Undefined, Lit(100, 1), Undefined),
         TCGCard("c2", Undefined, Lit(150, 1), Undefined),
         TCGCard("c3", Undefined, Lit(200, 1), Undefined) >>,
      << TCGCard("c1", Lit(1, 10), Lit(2, 10), Lit(3, 10)),
         TCGCard("c2", Zero, Undefined, Lit(100, 1)) >> }

\* values a price edit writes
Prices == { Undefined, Lit(100, 1) }

\* the initial collections and every collection one price edit away
Stores ==
    InitialStores \cup
    UNION { { [store EXCEPT ![i][tier] = price] :
                 i \in DOMAIN store, tier \in Tiers, price \in Prices } :
            store \in InitialStores }

BundleMultipliers == { Lit(1, 10), Lit(8, 10), Lit(15, 10) }

\* values of new Date()
Dates == {1, 2}

CardIDSeqs(n) == UNION { [1..k -> CardIds] : k \in 0..n }

CallUpdateBundleTotal ==
    \E date \in Dates :
       /\ call' = [op |-> "updateBundleTotal", bundle |-> bundle,
                   cards |-> cards, out |-> updateBundleTotal(bundle, cards, date)]
       /\ bundle' = updateBundleTotalArgs(bundle, cards, date).bundle
       /\ cards' = updateBundleTotalArgs(bundle, cards, date).cards

CallCalculateBundleStatistics ==
    /\ call' = [op |-> "calculateBundleStatistics", bundle |-> bundle,
                cards |-> cards, out |-> calculateBundleStatistics(bundle, cards)]
    /\ bundle' = calculateBundleStatisticsArgs(bundle, cards).bundle
    /\ cards' = calculateBundleStatisticsArgs(bundle, cards).cards

(***************************************************************************)
(* SpecBundle: updateBundleTotal and calculateBundleStatistics applied to  *)
(* every bundle over every card collection                                 *)
(***************************************************************************)
InitBundle ==
    /\ cards \in Stores
    /\ \E cardIDs \in CardIDSeqs(MaxCardIDs), strategy \in Strategies,
          multiplier \in Multipliers, total \in {Zero, Lit(360, 1)} :
          bundle = [NewBundle(strategy, multiplier) EXCEPT
                       !.cardIDs = cardIDs, !.calculatedTotal = total]
    /\ call = NoCall

NextBundle ==
    \/ CallUpdateBundleTotal
    \/ CallCalculateBundleStatistics

SpecBundle == InitBundle /\ [][NextBundle]_vars

(***************************************************************************)
(* SpecValidate: validateBundle applied to every bundle, next to           *)
(* calculateBundleTotal over the collection                                *)
(***************************************************************************)
\* empty, whitespace only, plain, and padded with whitespace
BundleNames ==
    { <<>>, <<" ", " ">>, <<"\t", "\n">>, <<"D", "e", "c", "k">>,
      <<" ", "D", "\t">> }

InitValidate ==
    /\ cards \in InitialStores
    /\ \E name \in BundleNames, cardIDs \in CardIDSeqs(MaxCardIDs),
          multiplier \in Multipliers :
          bundle = [NewBundle("average", multiplier) EXCEPT
                       !.name = name, !.cardIDs = cardIDs]
    /\ call = NoCall

CallValidateBundle ==
    /\ call' = [op |-> "validateBundle", bundle |-> bundle,
                out |-> validateBundle(bundle)]
    /\ bundle' = validateBundleArgs(bundle).bundle
    /\ UNCHANGED cards

NextValidate ==
    \/ CallValidateBundle
    \/ CallCalculateBundleTotal

SpecValidate == InitValidate /\ [][NextValidate]_vars

(***************************************************************************)
(* SpecCard: generatePriceTable and getCardIdentifier applied to one card  *)
(***************************************************************************)
TablePrices == { Undefined, Lit(1, 10), Lit(200, 1), Lit(12829, 100) }

\* plain, padded with whitespace, and containing the separator
CardNames == { <<"A">>, <<" ", "A">>, <<"A", "\t">>, <<"B">>, <<"A", "|">> }

SetNames == { <<>>, <<"S">>, <<"S", " ">>, <<"|", "S">> }

CardNumbers == { <<"4">>, <<" ", "4">>, <<"7">> }

\* the card with the property set to the value
WithField(card, field, value) == (field :> value) @@ card

\* the card without the property
WithoutField(card, field) == [f \in (DOMAIN card) \ {field} |-> card[f]]

CardInputs ==
    LET named   == { [TCGCard(id, t, a, l) EXCEPT !.id = id] @@ [cardName |-> n] :
                        id \in {"c1", "c2"}, n \in CardNames,
                        t \in TablePrices, a \in TablePrices, l \in TablePrices }
        withSet == named \cup
                   { WithField(c, "setName", x) : c \in named, x \in SetNames }
    IN  withSet \cup
        { WithField(c, "cardNumber", x) : c \in withSet, x \in CardNumbers }

InitCard ==
    /\ \E card \in CardInputs : cards = <<card>>
    /\ bundle = NewBundle("average", Lit(8, 10))
    /\ call = NoCall

CallGeneratePriceTable ==
    /\ \E i \in DOMAIN cards :
          /\ call' = [op |-> "generatePriceTable", card |-> cards[i],
                      out |-> generatePriceTable(cards[i])]
          /\ cards' = [cards EXCEPT ![i] = generatePriceTableArgs(cards[i]).card]
    /\ UNCHANGED bundle

CallGetCardIdentifier ==
    /\ \E i \in DOMAIN cards :
          /\ call' = [op |-> "getCardIdentifier", card |-> cards[i],
                      out |-> getCardIdentifier(cards[i])]
          /\ cards' = [cards EXCEPT ![i] = getCardIdentifierArgs(cards[i]).card]
    /\ UNCHANGED bundle

NextCard ==
    \/ CallGeneratePriceTable
    \/ CallGetCardIdentifier

SpecCard == InitCard /\ [][NextCard]_vars

(***************************************************************************)
(* SpecShared: callers sharing one bundle and one card collection.  The    *)
(* functions are synchronous, so the calls of several callers are the      *)
(* steps of one behaviour, in any order.                                   *)
(***************************************************************************)
\* the collections with card names
SharedStores ==
    { [i \in DOMAIN store |->
          WithField(store[i], "cardName", <<<<" ", "A">>, <<"B">>, <<"A", "|">>>>[i])] :
      store \in InitialStores }

InitShared ==
    /\ cards \in SharedStores
    /\ \E name \in {<<" ", "D", "\t">>}, cardIDs \in CardIDSeqs(MaxSharedIDs),
          strategy \in Strategies, multiplier \in BundleMultipliers :
          bundle = [NewBundle(strategy, multiplier) EXCEPT
                       !.name = name, !.cardIDs = cardIDs]
    /\ call = NoCall

NextShared ==
    \/ CallCalculateBundleTotal
    \/ CallCalculateBundleStatistics
    \/ CallUpdateBundleTotal
    \/ CallValidateBundle
    \/ CallGeneratePriceTable
    \/ CallGetCardIdentifier

SpecShared == InitShared /\ [][NextShared]_vars

(***************************************************************************)
(* SpecTime: formatRelativeTime applied to dates around every threshold    *)
(***************************************************************************)
\* readings of the clock, in milliseconds
Clock == { 700000000, 700000001, 700000999 }

\* whole seconds between the date and the clock: the future, each threshold
\* with its neighbours, and multiples of the units
ElapsedSeconds ==
    { -5, 0, 1, 59, 60, 61, 119, 120, 121, 600, 3540, 3599, 3600, 3601, 5400,
      7199, 7200, 7201, 36000, 82800, 86399, 86400, 86401, 172799, 172800,
      259200, 518400, 604799, 604800, 604801, 691200, 1209600 }

\* milliseconds on top of the whole seconds
ElapsedMillis == { 0, 1, 999 }

InitTime ==
    /\ cards = <<>>
    /\ bundle = NewBundle("average", Lit(8, 10))
    /\ call = NoCall

CallFormatRelativeTime ==
    /\ \E now \in Clock, seconds \in ElapsedSeconds, millis \in ElapsedMillis :
          LET date == now - (seconds * 1000 + millis)
          IN  call' = [op |-> "formatRelativeTime", date |-> date, now |-> now,
                       out |-> formatRelativeTime(date, now)]
    /\ UNCHANGED <<cards, bundle>>

NextTime == CallFormatRelativeTime

SpecTime == InitTime /\ [][NextTime]_vars

(***************************************************************************)
(* Spec: a caller holding one bundle and a card collection; it edits the   *)
(* bundle and the cards' prices, calls updateBundleTotal and               *)
(* calculateBundleStatistics, and replaces its bundle by an updated one    *)
(***************************************************************************)
Init ==
    /\ cards \in InitialStores
    /\ \E strategy \in Strategies :
          bundle = NewBundle(strategy, Lit(8, 10))
    /\ call = NoCall

AddCard ==
    /\ Len(bundle.cardIDs) < MaxHeld
    /\ \E id \in CardIds :
          bundle' = [bundle EXCEPT !.cardIDs = Append(@, id)]
    /\ call' = NoCall
    /\ UNCHANGED cards

RemoveCard ==
    /\ \E i \in DOMAIN bundle.cardIDs :
          bundle' = [bundle EXCEPT !.cardIDs =
                        SubSeq(@, 1, i - 1) \o SubSeq(@, i + 1, Len(@))]
    /\ call' = NoCall
    /\ UNCHANGED cards

SetStrategy ==
    /\ \E strategy \in Strategies \ {bundle.pricingStrategy} :
          bundle' = [bundle EXCEPT !.pricingStrategy = strategy]
    /\ call' = NoCall
    /\ UNCHANGED cards

SetMultiplier ==
    /\ \E multiplier \in BundleMultipliers \ {bundle.percentageMultiplier} :
          bundle' = [bundle EXCEPT !.percentageMultiplier = multiplier]
    /\ call' = NoCall
    /\ UNCHANGED cards

SetPrice ==
    /\ \E i \in DOMAIN cards, tier \in Tiers, price \in Prices :
          /\ price # cards[i][tier]
          /\ cards' = [cards EXCEPT ![i][tier] = price]
          /\ cards' \in Stores
    /\ call' = NoCall
    /\ UNCHANGED bundle

\* the caller replaces its bundle by the one updateBundleTotal returned
AdoptUpdatedBundle ==
    /\ call.op = "updateBundleTotal"
    /\ call.out.kind = "return"
    /\ bundle' = call.out.value
    /\ call' = NoCall
    /\ UNCHANGED cards

Next ==
    \/ AddCard
    \/ RemoveCard
    \/ SetStrategy
    \/ SetMultiplier
    \/ SetPrice
    \/ CallUpdateBundleTotal
    \/ AdoptUpdatedBundle
    \/ CallCalculateBundleStatistics

Spec == Init /\ [][Next]_vars

(***************************************************************************)
(* Properties                                                              *)
(***************************************************************************)
\* multiplier lies in [0.1, 1.0]
InRange(multiplier) ==
    /\ ~ FLess(multiplier, MinMultiplier)
    /\ ~ FLess(MaxMultiplier, multiplier)

TierOf(strategy) ==
    CASE strategy = "trending" -> "trendingPrice"
      [] strategy = "average"  -> "averagePrice"
      [] strategy = "low"      -> "lowPrice"

\* the price of the tier, an absent price counted as 0
TierOrZero(card, tier) == IF card[tier] = Undefined THEN Zero ELSE card[tier]

\* the sum of the first n entries of a sequence of numbers
RECURSIVE SumTo(_, _)
SumTo(xs, n) == IF n = 0 THEN Zero ELSE FAdd(SumTo(xs, n - 1), xs[n])

\* the sum of one tier over a sequence of cards
TierSum(cs, tier) == SumTo([i \in DOMAIN cs |-> TierOrZero(cs[i], tier)], Len(cs))

IsTotalCall == call.op = "calculateBundleTotal"

\* C1: for a non-empty card sequence and a multiplier in [0.1, 1.0],
\* calculateBundleTotal returns multiplier times the sum of the tier named by
\* the strategy, an absent tier counted as 0.
C1_TotalIsMultiplierTimesSum ==
    (IsTotalCall /\ call.cards # <<>> /\ InRange(call.multiplier))
        => call.out = Return(FMul(call.multiplier,
                                  TierSum(call.cards, TierOf(call.strategy))))

\* average 100, 150, 200 at multiplier 0.8 give 360
C1_Witness ==
    /\ IsTotalCall
    /\ Len(call.cards) = 3
    /\ \A i \in 1..3 : call.cards[i].averagePrice = Lit(50 + 50 * i, 1)
    /\ call.strategy = "average"
    /\ call.multiplier = Lit(8, 10)
    /\ call.out = Return(Lit(360, 1))

\* C2: for a multiplier outside [0.1, 1.0] calculateBundleTotal throws the
\* invalid-multiplier error and returns no number, for every card sequence
\* and strategy.
C2_OutOfRangeThrows ==
    (IsTotalCall /\ ~ InRange(call.multiplier))
        => /\ call.out.kind = "throw"
           /\ call.out.message = "Multiplier must be between 0.1 and 1.0 (10% to 100%)"

C2_Witness ==
    /\ IsTotalCall
    /\ call.cards = <<>>
    /\ call.multiplier = Lit(15, 10)
    /\ call.out.kind = "throw"

HasTier(card, tier) == card[tier] # Undefined

\* C3: a card whose selected tier is absent never makes calculateBundleTotal
\* fail; the total equals the total over the sequence without such cards.
C3_AbsentTierIsZero ==
    (IsTotalCall /\ InRange(call.multiplier))
        => /\ call.out.kind = "return"
           /\ call.out =
                calculateBundleTotal(
                    SelectSeq(call.cards,
                              LAMBDA c : HasTier(c, TierOf(call.strategy))),
                    call.strategy, call.multiplier)

C3_Witness ==
    /\ IsTotalCall
    /\ InRange(call.multiplier)
    /\ \E i, j \in DOMAIN call.cards :
          /\ ~ HasTier(call.cards[i], TierOf(call.strategy))
          /\ HasTier(call.cards[j], TierOf(call.strategy))
          /\ call.cards[j][TierOf(call.strategy)] # Zero
    /\ call.out.kind = "return"
    /\ call.out.value # Zero

Reorderings(n) == { p \in [1..n -> 1..n] : \A i, j \in 1..n : p[i] = p[j] => i = j }

\* C4: calculateBundleTotal is independent of the order of the cards.
C4_OrderIndependent ==
    (IsTotalCall /\ InRange(call.multiplier))
        => \A p \in Reorderings(Len(call.cards)) :
              calculateBundleTotal([i \in DOMAIN call.cards |-> call.cards[p[i]]],
                                   call.strategy, call.multiplier) = call.out

IsUpdateCall == call.op = "updateBundleTotal"

IsStatisticsCall == call.op = "calculateBundleStatistics"

\* the ids named by cardIDs
IdsOf(b) == { b.cardIDs[i] : i \in DOMAIN b.cardIDs }

\* the cards of the collection whose id is in cardIDs, in collection order
CardsOf(b, cs) == SelectSeq(cs, LAMBDA c : c.id \in IdsOf(b))

\* percentageMultiplier times the sum of the selected tier over the cards
\* whose id is in cardIDs
ConsistentTotal(b, cs) ==
    FMul(b.percentageMultiplier, TierSum(CardsOf(b, cs), TierOf(b.pricingStrategy)))

\* C5: whatever cards were added or removed, whatever strategy, in-range
\* multiplier and prices were set, the bundle updateBundleTotal produces has
\* calculatedTotal = percentageMultiplier times the sum of the selected tier
\* over the stored cards whose id is in cardIDs.
C5_UpdateMakesBundleConsistent ==
    (IsUpdateCall /\ InRange(call.bundle.percentageMultiplier))
        => /\ call.out.kind = "return"
           /\ call.out.value.calculatedTotal = ConsistentTotal(call.bundle, call.cards)

\* an update of a bundle whose stored total was stale after a price edit
C5_Witness ==
    /\ IsUpdateCall
    /\ call.out.kind = "return"
    /\ call.cards \notin InitialStores
    /\ Len(call.bundle.cardIDs) = MaxHeld
    /\ call.bundle.calculatedTotal # Zero
    /\ call.out.value.calculatedTotal # call.bundle.calculatedTotal
    /\ call.out.value.calculatedTotal # Zero

FrameFields ==
    {"id", "name", "cardIDs", "pricingStrategy", "percentageMultiplier",
     "notes", "createdAt"}

\* C6: updateBundleTotal returns a bundle whose calculatedTotal is
\* calculateBundleTotal over the cards whose id is in cardIDs with the
\* bundle's strategy and multiplier, every field other than calculatedTotal
\* and lastModified being the input bundle's.
C6_UpdateFrame ==
    (IsUpdateCall /\ call.out.kind = "return")
        => /\ Return(call.out.value.calculatedTotal) =
                calculateBundleTotal(CardsOf(call.bundle, call.cards),
                                     call.bundle.pricingStrategy,
                                     call.bundle.percentageMultiplier)
           /\ DOMAIN call.out.value = DOMAIN call.bundle
           /\ \A f \in FrameFields : call.out.value[f] = call.bundle[f]

\* an update that changes the total and the timestamp of a bundle naming a
\* card twice and an id without a card
C6_Witness ==
    /\ IsUpdateCall
    /\ call.out.kind = "return"
    /\ \E i, j \in DOMAIN call.bundle.cardIDs :
          i # j /\ call.bundle.cardIDs[i] = call.bundle.cardIDs[j]
    /\ \E id \in IdsOf(call.bundle) :
          \A i \in DOMAIN call.cards : call.cards[i].id # id
    /\ call.out.value.calculatedTotal # call.bundle.calculatedTotal
    /\ call.out.value.lastModified # call.bundle.lastModified

\* number of occurrences of id in cardIDs
Occurrences(cardIDs, id) == Cardinality({ i \in DOMAIN cardIDs : cardIDs[i] = id })

\* the sum of a tier over the collection, every card counted once per
\* occurrence of its id in cardIDs
RECURSIVE OccurrenceSum(_, _, _, _)
OccurrenceSum(cs, cardIDs, tier, sum) ==
    IF cs = <<>> THEN sum
    ELSE LET n == Occurrences(cardIDs, Head(cs).id)
             price == TierOrZero(Head(cs), tier)
         IN  OccurrenceSum(Tail(cs), cardIDs, tier,
                           SumTo([i \in 1..(n + 1) |-> IF i = 1 THEN sum ELSE price],
                                 n + 1))

\* C7: a card id that occurs twice in cardIDs contributes its card's price
\* twice to the total of updateBundleTotal (one contribution per occurrence).
C7_OneContributionPerOccurrence ==
    (IsUpdateCall /\ call.out.kind = "return")
        => call.out.value.calculatedTotal =
              FMul(call.bundle.percentageMultiplier,
                   OccurrenceSum(call.cards, call.bundle.cardIDs,
                                 TierOf(call.bundle.pricingStrategy), Zero))

\* C8: calculateBundleStatistics returns bundle.calculatedTotal unchanged as
\* selectedTotal, also when the bundle or the prices changed since the last
\* updateBundleTotal.
C8_SelectedTotalIsStoredTotal ==
    IsStatisticsCall
        => call.out = Return([call.out.value EXCEPT
                                 !.selectedTotal = call.bundle.calculatedTotal])

\* statistics of a bundle that was updated and then edited: selectedTotal is
\* the old total, not multiplier times the current strategy sum
C8_Witness ==
    /\ IsStatisticsCall
    /\ InRange(call.bundle.percentageMultiplier)
    /\ call.bundle.lastModified # 0
    /\ call.out.value.selectedTotal # Zero
    /\ call.out.value.selectedTotal # ConsistentTotal(call.bundle, call.cards)

\* C9: trendingTotal, averageTotal and lowTotal are the plain sums of their
\* tier over the cards whose id is in cardIDs, absent prices counted as 0,
\* not scaled by percentageMultiplier and independent of pricingStrategy.
C9_StatisticsArePlainSums ==
    IsStatisticsCall
        => LET bundleCards == CardsOf(call.bundle, call.cards)
           IN  /\ call.out.kind = "return"
               /\ call.out.value.trendingTotal = TierSum(bundleCards, "trendingPrice")
               /\ call.out.value.averageTotal = TierSum(bundleCards, "averagePrice")
               /\ call.out.value.lowTotal = TierSum(bundleCards, "lowPrice")

\* average prices 100, 150, 200 and no other tier, at multiplier 0.8 and a
\* strategy other than average: averageTotal 450, trendingTotal 0, lowTotal 0
C9_Witness ==
    /\ IsStatisticsCall
    /\ Len(call.cards) = 3
    /\ \A i \in 1..3 :
          /\ call.cards[i].averagePrice = Lit(50 + 50 * i, 1)
          /\ call.cards[i].trendingPrice = Undefined
          /\ call.cards[i].lowPrice = Undefined
    /\ IdsOf(call.bundle) = CardIds
    /\ call.bundle.percentageMultiplier = Lit(8, 10)
    /\ call.bundle.pricingStrategy = "low"
    /\ call.out.value.averageTotal = Lit(450, 1)
    /\ call.out.value.trendingTotal = Zero
    /\ call.out.value.lowTotal = Zero

NonMembers(b, cs) == { i \in DOMAIN cs : cs[i].id \notin IdsOf(b) }

\* the collection without the cards at the positions in S
Without(cs, S) ==
    LET keep == { i \in DOMAIN cs : i \notin S }
        RECURSIVE Pick(_)
        Pick(n) == IF n = 0 THEN <<>>
                   ELSE IF n \in keep THEN Append(Pick(n - 1), cs[n])
                   ELSE Pick(n - 1)
    IN  Pick(Len(cs))

\* C11: calculateBundleStatistics and updateBundleTotal use exactly the cards
\* whose id is in cardIDs: taking cards with other ids out of the collection
\* changes no result, and every card whose id is in cardIDs is summed.
C11_ExactlyTheBundleCards ==
    /\ IsStatisticsCall
          => /\ \A S \in SUBSET NonMembers(call.bundle, call.cards) :
                   calculateBundleStatistics(call.bundle, Without(call.cards, S))
                      = call.out
             /\ call.out.value.averageTotal =
                   TierSum(CardsOf(call.bundle, call.cards), "averagePrice")
             /\ call.out.value.validCardCount <=
                   Len(CardsOf(call.bundle, call.cards))
    /\ (IsUpdateCall /\ call.out.kind = "return")
          => /\ \A S \in SUBSET NonMembers(call.bundle, call.cards) :
                   updateBundleTotal(call.bundle, Without(call.cards, S),
                                     call.out.value.lastModified) = call.out
             /\ call.out.value.calculatedTotal =
                   ConsistentTotal(call.bundle, call.cards)

\* a collection with a priced card outside the bundle and two priced cards
\* inside it, the second id of cardIDs among them
C11_Witness ==
    /\ IsStatisticsCall
    /\ \E i \in NonMembers(call.bundle, call.cards) :
          call.cards[i].averagePrice \notin {Undefined, Zero}
    /\ Len(call.bundle.cardIDs) >= 2
    /\ call.bundle.cardIDs[1] # call.bundle.cardIDs[2]
    /\ \A k \in 1..2 : \E i \in DOMAIN call.cards :
          /\ call.cards[i].id = call.bundle.cardIDs[k]
          /\ call.cards[i].averagePrice \notin {Undefined, Zero}
    /\ call.out.value.averageTotal # Zero

\* C12: updateBundleTotal on a bundle whose percentageMultiplier is outside
\* [0.1, 1.0] throws the invalid-multiplier Error and returns no bundle.
C12_UpdateOutOfRangeThrows ==
    (IsUpdateCall /\ ~ InRange(call.bundle.percentageMultiplier))
        => /\ call.out.kind = "throw"
           /\ call.out.message = "Multiplier must be between 0.1 and 1.0 (10% to 100%)"
           /\ DOMAIN call.out = {"kind", "message"}

C12_Witness ==
    /\ IsUpdateCall
    /\ call.bundle.percentageMultiplier = Lit(15, 10)
    /\ call.bundle.cardIDs # <<>>
    /\ call.out.kind = "throw"

IsValidateCall == call.op = "validateBundle"

\* the three checks in the order of the source, each with its message
Checks(b) ==
    << [violated |-> \A i \in DOMAIN b.name : b.name[i] \in WhiteSpace,
        message  |-> "Bundle name is required"],
       [violated |-> b.cardIDs = <<>>,
        message  |-> "Bundle must contain at least one card"],
       [violated |-> ~ InRange(b.percentageMultiplier),
        message  |-> "Percentage must be between 10% and 100%"] >>

\* the messages of the violated checks, in order
Violations(b) ==
    LET violated == SelectSeq(Checks(b), LAMBDA c : c.violated)
    IN  [i \in DOMAIN violated |-> violated[i].message]

\* C13: validateBundle evaluates the three checks independently and returns
\* one message per violated check in the order name, cardIDs,
\* percentageMultiplier; isValid is true exactly when there is no message.
C13_OneMessagePerViolation ==
    IsValidateCall
        => /\ call.out.kind = "return"
           /\ call.out.value.errors = Violations(call.bundle)
           /\ call.out.value.isValid <=> (call.out.value.errors = <<>>)

\* whitespace-only name, no card, multiplier 1.5: exactly 3 messages
C13_Witness ==
    /\ IsValidateCall
    /\ call.bundle.name = <<" ", " ">>
    /\ call.bundle.cardIDs = <<>>
    /\ call.bundle.percentageMultiplier = Lit(15, 10)
    /\ Len(call.out.value.errors) = 3
    /\ ~ call.out.value.isValid

\* C14: validateBundle never raises and never changes the bundle.
C14_ValidateIsReadOnly ==
    IsValidateCall
        => /\ call.out.kind = "return"
           /\ bundle = call.bundle

\* a padded name and an out-of-range multiplier: a result is returned and
\* the bundle is as before
C14_Witness ==
    /\ IsValidateCall
    /\ call.bundle.name = <<" ", "D", "\t">>
    /\ ~ InRange(call.bundle.percentageMultiplier)
    /\ call.out.kind = "return"
    /\ call.out.value.errors # <<>>
    /\ bundle.name = <<" ", "D", "\t">>

\* the multipliers exactly 0.1 and exactly 1.0
RangeEnds == { Lit(1, 10), Lit(1, 1) }

\* C20: the multiplier range is inclusive at both ends: calculateBundleTotal
\* with multiplier exactly 0.1 or 1.0 returns a total, and validateBundle
\* reports no multiplier violation for percentageMultiplier exactly 0.1 or 1.0.
C20_RangeEndsAreAccepted ==
    /\ (IsTotalCall /\ call.multiplier \in RangeEnds)
          => call.out.kind = "return"
    /\ (IsValidateCall /\ call.bundle.percentageMultiplier \in RangeEnds)
          => \A i \in DOMAIN call.out.value.errors :
                call.out.value.errors[i] # "Percentage must be between 10% and 100%"

\* a bundle at the lower end that validates without any message
C20_Witness ==
    /\ IsValidateCall
    /\ call.bundle.percentageMultiplier = Lit(1, 10)
    /\ call.out.value.isValid

\* the total at the upper end is the plain sum
C20_WitnessTotal ==
    /\ IsTotalCall
    /\ call.multiplier = Lit(1, 1)
    /\ call.out.kind = "return"
    /\ call.out.value # Zero

IsTableCall == call.op = "generatePriceTable"

IsIdentifierCall == call.op = "getCardIdentifier"

\* 100, 90, ..., 10
Descending == [i \in 1..10 |-> Lit(110 - 10 * i, 1)]

Fifty == Lit(50, 1)

TwoHundred == Lit(200, 1)

\* C15: generatePriceTable returns, for every card, exactly 10 rows whose
\* percentage fields are 100, 90, ..., 10 in that order.
C15_TenRowsDescending ==
    IsTableCall
        => /\ call.out.kind = "return"
           /\ Len(call.out.value) = 10
           /\ \A i \in 1..10 : call.out.value[i].percentage = Descending[i]

\* a card with all three tiers absent
C15_Witness ==
    /\ IsTableCall
    /\ \A tier \in Tiers : call.card[tier] = Undefined
    /\ Len(call.out.value) = 10
    /\ call.out.value[10].percentage = Lit(10, 1)

ValueOf(tier) ==
    CASE tier = "trendingPrice" -> "trendingValue"
      [] tier = "averagePrice"  -> "averageValue"
      [] tier = "lowPrice"      -> "lowValue"

\* C16: in the row with percentage p every value is its own tier's price (0
\* when absent) times p/100; the 100% row is the tier prices exactly, and a
\* trendingPrice of 200 gives trendingValue 100 in the 50% row.
C16_RowValuesScaleEachTier ==
    IsTableCall
        => \A i \in DOMAIN call.out.value : \A tier \in Tiers :
              LET row == call.out.value[i]
                  price == TierOrZero(call.card, tier)
              IN  /\ row[ValueOf(tier)] =
                        FMul(price, FDiv(row.percentage, Descending[1]))
                  /\ row.percentage = Descending[1] => row[ValueOf(tier)] = price
                  /\ (row.percentage = Fifty /\ tier = "trendingPrice"
                         /\ price = TwoHundred)
                        => row.trendingValue = Descending[1]

\* trendingPrice 200, no average price, another low price
C16_Witness ==
    /\ IsTableCall
    /\ call.card.trendingPrice = Lit(200, 1)
    /\ call.card.averagePrice = Undefined
    /\ call.card.lowPrice = Lit(12829, 100)
    /\ call.out.value[1].trendingValue = Lit(200, 1)
    /\ call.out.value[6].trendingValue = Lit(100, 1)
    /\ call.out.value[6].averageValue = Zero
    /\ call.out.value[1].lowValue = Lit(12829, 100)

\* the string without its leading and trailing white space
Stripped(str) ==
    LET ink == { i \in DOMAIN str : str[i] \notin WhiteSpace }
    IN  IF ink = {} THEN <<>>
        ELSE SubSeq(str, CHOOSE i \in ink : \A j \in ink : i <= j,
                         CHOOSE i \in ink : \A j \in ink : i >= j)

\* the optional string property, "" when it is not set
FieldOrEmpty(card, field) == IF field \in DOMAIN card THEN card[field] ELSE <<>>

Key(card) ==
    Stripped(card.cardName) \o <<"|">> \o Stripped(FieldOrEmpty(card, "setName"))
    \o <<"|">> \o Stripped(FieldOrEmpty(card, "cardNumber"))

\* cards with the same cardName, setName and cardNumber, other id and prices
SameNames(card) ==
    { [card EXCEPT !.id = id, !.trendingPrice = t, !.lowPrice = l] :
         id \in {"c1", "c2", "c3"}, t \in TablePrices, l \in TablePrices }

\* C17: getCardIdentifier returns trim(cardName) | trim(setName or "") |
\* trim(cardNumber or ""), so cards with identical cardName, setName and
\* cardNumber get identical identifiers whatever their id and other fields.
C17_IdentifierIsTrimmedTriple ==
    IsIdentifierCall
        => /\ call.out = Return(Key(call.card))
           /\ \A other \in SameNames(call.card) :
                 getCardIdentifier(other) = call.out

\* padded name and number, no set name
C17_Witness ==
    /\ IsIdentifierCall
    /\ call.card.cardName = <<" ", "A">>
    /\ "setName" \notin DOMAIN call.card
    /\ "cardNumber" \in DOMAIN call.card
    /\ call.card.cardNumber = <<" ", "4">>
    /\ call.out = Return(<<"A", "|", "|", "4">>)

NameFields == {"cardName", "setName", "cardNumber"}

\* values a name property takes
ValuesOf(field) ==
    CASE field = "cardName"   -> CardNames
      [] field = "setName"    -> SetNames
      [] field = "cardNumber" -> CardNumbers

\* the cards that differ from card in exactly the one property
DifferingIn(card, field) ==
    { WithField(card, field, x) :
         x \in { y \in ValuesOf(field) :
                    field \notin DOMAIN card \/ y # card[field] } }
    \cup (IF field # "cardName" /\ field \in DOMAIN card
          THEN {WithoutField(card, field)} ELSE {})

\* C18 as claimed: two cards that differ in exactly one of cardName, setName,
\* cardNumber get different identifiers.
C18_AnyDifferenceChangesIdentifier ==
    IsIdentifierCall
        => \A field \in NameFields : \A other \in DifferingIn(call.card, field) :
              getCardIdentifier(other) # call.out

\* C18 as amended: two cards that differ in exactly one of cardName, setName,
\* cardNumber get different identifiers when the two values of that property
\* still differ after trimming, a property that is not set counting as "".
C18_TrimmedDifferenceChangesIdentifier ==
    IsIdentifierCall
        => \A field \in NameFields : \A other \in DifferingIn(call.card, field) :
              Stripped(FieldOrEmpty(other, field))
                    # Stripped(FieldOrEmpty(call.card, field))
                 <=> getCardIdentifier(other) # call.out

\* a card with a set name, against cards with another set name and with
\* another card number
C18_Witness ==
    /\ IsIdentifierCall
    /\ "setName" \in DOMAIN call.card
    /\ "cardNumber" \in DOMAIN call.card
    /\ \E other \in DifferingIn(call.card, "setName") :
          /\ Stripped(FieldOrEmpty(other, "setName")) # Stripped(call.card.setName)
          /\ getCardIdentifier(other) # call.out
    /\ \E other \in DifferingIn(call.card, "cardNumber") :
          /\ Stripped(FieldOrEmpty(other, "cardNumber")) = Stripped(call.card.cardNumber)
          /\ getCardIdentifier(other) = call.out

\* C19: no call of calculateBundleTotal, calculateBundleStatistics,
\* updateBundleTotal, validateBundle, generatePriceTable or getCardIdentifier
\* changes the bundle or a card it was given, whatever calls came before, and
\* the bundle updateBundleTotal returns is a value next to the unchanged one.
C19_CallsLeaveArgumentsUnchanged ==
    [][ /\ bundle' = bundle
        /\ cards' = cards
        /\ (call'.op = "updateBundleTotal" /\ call'.out.kind = "return")
              => /\ bundle'.calculatedTotal = bundle.calculatedTotal
                 /\ bundle'.cardIDs = bundle.cardIDs
                 /\ call'.out.value.calculatedTotal = ConsistentTotal(bundle, cards) ]_vars

\* an update over a bundle with a stale total, after which the shared bundle
\* still holds the stale total and the result holds the new one
C19_Witness ==
    /\ IsUpdateCall
    /\ call.out.kind = "return"
    /\ bundle = call.bundle
    /\ cards = call.cards
    /\ Len(bundle.cardIDs) > 0
    /\ call.out.value.calculatedTotal # bundle.calculatedTotal
    /\ bundle.calculatedTotal = Zero

\* prices written into the tiers the strategy does not select: none, and one
\* above every price of the pool
OtherPrices == { Undefined, Lit(1000, 1) }

\* the card with its two other tiers replaced
WithOtherTiers(card, tier, p, q) ==
    CASE tier = "trendingPrice" -> [card EXCEPT !.averagePrice = p, !.lowPrice = q]
      [] tier = "averagePrice"  -> [card EXCEPT !.trendingPrice = p, !.lowPrice = q]
      [] tier = "lowPrice"      -> [card EXCEPT !.trendingPrice = p, !.averagePrice = q]

\* the sequences that agree with cs on the tier and differ in the other two
\* tiers of one card or of every card
AgreeingOn(cs, tier) ==
    { [i \in DOMAIN cs |-> IF i \in S THEN WithOtherTiers(cs[i], tier, p, q) ELSE cs[i]] :
         S \in { {i} : i \in DOMAIN cs } \cup { DOMAIN cs },
         p \in OtherPrices, q \in OtherPrices }

\* C21: card sequences that agree on the tier of the strategy give the same
\* outcome of calculateBundleTotal, whatever their other two tiers hold.
C21_OnlySelectedTierCounts ==
    IsTotalCall
        => \A other \in AgreeingOn(call.cards, TierOf(call.strategy)) :
              calculateBundleTotal(other, call.strategy, call.multiplier) = call.out

\* a total over the low tier of cards whose low price is the largest, the
\* smallest and absent
C21_Witness ==
    /\ IsTotalCall
    /\ call.strategy = "low"
    /\ call.out.kind = "return"
    /\ Len(call.cards) = 3
    /\ call.cards[1].lowPrice = Lit(3, 10) /\ call.cards[1].trendingPrice = Lit(1, 10)
    /\ call.cards[2].lowPrice = Lit(1, 10) /\ call.cards[2].averagePrice = Lit(3, 10)
    /\ call.cards[3].lowPrice = Undefined /\ call.cards[3].averagePrice = Lit(100, 1)
    /\ \E other \in AgreeingOn(call.cards, "lowPrice") :
          /\ other # call.cards
          /\ calculateBundleTotal(other, "low", call.multiplier) = call.out

\* the positions of the collection whose card is named by cardIDs
Members(b, cs) == { i \in DOMAIN cs : cs[i].id \in IdsOf(b) }

\* C22: cardCount is the length of bundle.cardIDs, every occurrence of a
\* repeated id and every id without a card counted.
C22_CardCountIsLengthOfCardIDs ==
    IsStatisticsCall
        => /\ call.out.kind = "return"
           /\ call.out.value.cardCount = Cardinality(DOMAIN call.bundle.cardIDs)

\* a repeated id and an id without a card: three ids, one contributing card
C22_Witness ==
    /\ IsStatisticsCall
    /\ call.bundle.cardIDs = <<"c1", "c1", "c3">>
    /\ \A i \in DOMAIN call.cards : call.cards[i].id # "c3"
    /\ Cardinality(Members(call.bundle, call.cards)) = 1
    /\ call.out.value.cardCount = 3

IsRelativeTimeCall == call.op = "formatRelativeTime"

\* C23 as claimed: formatRelativeTime of a date exactly one hour (3600
\* seconds) before now returns "1 hour ago".
C23_OneHourAgo ==
    (IsRelativeTimeCall /\ call.now - call.date = 3600000)
        => call.out = Return("1 hour ago")

\* the statistics total of the strategy
TotalOf(strategy) ==
    CASE strategy = "trending" -> "trendingTotal"
      [] strategy = "average"  -> "averageTotal"
      [] strategy = "low"      -> "lowTotal"

\* C24: when updateBundleTotal(b, cards) returns b2, the statistics of b2 over
\* the same cards have selectedTotal = b.percentageMultiplier times the
\* statistics total of b's strategy.
C24_StatisticsOfUpdatedBundleAgree ==
    (IsUpdateCall /\ call.out.kind = "return")
        => LET statistics == calculateBundleStatistics(call.out.value, call.cards).value
           IN  statistics.selectedTotal =
                  FMul(call.bundle.percentageMultiplier,
                       statistics[TotalOf(call.bundle.pricingStrategy)])

\* an update at 80% of a bundle naming a card without a price in the tier of
\* the strategy, a priced card and a card that is not in the bundle
C24_Witness ==
    /\ IsUpdateCall
    /\ call.out.kind = "return"
    /\ call.bundle.percentageMultiplier = Lit(8, 10)
    /\ call.out.value.calculatedTotal # Zero
    /\ call.out.value.calculatedTotal # call.bundle.calculatedTotal
    /\ NonMembers(call.bundle, call.cards) # {}
    /\ \E i, j \in Members(call.bundle, call.cards) :
          /\ call.cards[i][TierOf(call.bundle.pricingStrategy)] = Undefined
          /\ call.cards[j][TierOf(call.bundle.pricingStrategy)] # Undefined
    /\ calculateBundleStatistics(call.out.value, call.cards).value.selectedTotal
          = call.out.value.calculatedTotal

\* the validation lists the percentage message
ReportsPercentage(out) ==
    \E i \in DOMAIN out.value.errors :
       out.value.errors[i] = "Percentage must be between 10% and 100%"

\* C25: validateBundle reports the percentage violation for a bundle exactly
\* when calculateBundleTotal fails for the bundle's multiplier, so
\* updateBundleTotal returns for every bundle validateBundle accepts.
C25_ValidationAgreesWithTotal ==
    IsValidateCall
        => /\ \A strategy \in Strategies :
                 ReportsPercentage(call.out)
                    <=> calculateBundleTotal(cards, strategy,
                                             call.bundle.percentageMultiplier).kind
                           = "throw"
           /\ call.out.value.isValid
                 => \A date \in Dates :
                       updateBundleTotal(call.bundle, cards, date).kind = "return"

\* a bundle at the lower end of the range that validateBundle accepts and
\* updateBundleTotal prices
C25_Witness ==
    /\ IsValidateCall
    /\ call.out.value.isValid
    /\ call.bundle.percentageMultiplier = Lit(1, 10)
    /\ \E date \in Dates :
          LET updated == updateBundleTotal(call.bundle, cards, date)
          IN  updated.kind = "return" /\ updated.value.calculatedTotal # Zero

\* C26: for every strategy, the value of its tier in the row with percentage
\* p is what calculateBundleTotal returns for the one card at multiplier
\* p/100, 0 on both sides when the card has no price in the tier.
C26_TableAgreesWithTotal ==
    IsTableCall
        => \A i \in DOMAIN call.out.value : \A strategy \in Strategies :
              LET row == call.out.value[i]
              IN  calculateBundleTotal(<<call.card>>, strategy,
                                       FDiv(row.percentage, Descending[1]))
                     = Return(row[ValueOf(TierOf(strategy))])

\* a card with a cent price in one tier and no price in another: the 80% and
\* 10% rows against the totals at 0.8 and 0.1
C26_Witness ==
    /\ IsTableCall
    /\ call.card.trendingPrice = Lit(12829, 100)
    /\ call.card.averagePrice = Undefined
    /\ call.out.value[3].trendingValue # Zero
    /\ calculateBundleTotal(<<call.card>>, "trending", Lit(8, 10))
          = Return(call.out.value[3].trendingValue)
    /\ calculateBundleTotal(<<call.card>>, "trending", Lit(1, 10))
          = Return(call.out.value[10].trendingValue)
    /\ calculateBundleTotal(<<call.card>>, "average", Lit(8, 10)) = Return(Zero)
    /\ call.out.value[3].averageValue = Zero

\* no two cards of the collection have the same id
DistinctIds(cs) == \A i, j \in DOMAIN cs : cs[i].id = cs[j].id => i = j

\* C27: over a collection of pairwise distinct ids, validCardCount is at most
\* the number of supplied cards whose id is in cardIDs, which is at most
\* cardCount.
C27_CountsAreOrdered ==
    (IsStatisticsCall /\ DistinctIds(call.cards))
        => LET found == Cardinality(Members(call.bundle, call.cards))
           IN  /\ call.out.value.validCardCount <= found
               /\ found <= call.out.value.cardCount

\* both inequalities strict: a repeated id, and a found card without a
\* trendingPrice
C27_Witness ==
    /\ IsStatisticsCall
    /\ DistinctIds(call.cards)
    /\ call.out.value.validCardCount = 1
    /\ Cardinality(Members(call.bundle, call.cards)) = 2
    /\ call.out.value.cardCount = 3

====
